---- MODULE Spec2Model ----
(***************************************************************************)
(* Model of chivos/plaszczynski.py: the Plaszczynski modified asymptotic   *)
(* estimator PMAS(q, u, sq, su, rsqsu) and its helpers.                    *)
(*                                                                         *)
(* The module is a chain of numpy element-wise operations on float64       *)
(* arrays.  Every numpy operation is modelled as what it is: the exact     *)
(* real result rounded to the nearest value of a binary floating-point     *)
(* format (ties to even), with the IEEE-754 special values NaN and         *)
(* +/-infinity.  The format is float64 scaled down: its significand has    *)
(* Prec bits instead of 53, so that rounding happens at the magnitudes     *)
(* the model's inputs have.  The exponent is unbounded (no overflow or     *)
(* gradual underflow at these magnitudes), and zero has no sign (the       *)
(* inputs hold no negative zero and no divisor of the code can be one).    *)
(***************************************************************************)
EXTENDS Integers, Sequences, FiniteSets

(***************************************************************************)
(* The floating-point format.                                              *)
(***************************************************************************)

\* Bits of the significand (53 in float64).
Prec == 4

\* Smallest and largest normalised significand: Lo <= |m| < Hi.
Hi == 2 ^ Prec
Lo == 2 ^ (Prec - 1)

\* A value is finite (m * 2^e, normalised, or m = e = 0), infinite (m = 1 or
\* m = -1) or NaN.
NaN == [k |-> "nan", m |-> 0, e |-> 0]
PInf == [k |-> "inf", m |-> 1, e |-> 0]
NInf == [k |-> "inf", m |-> -1, e |-> 0]
Zero == [k |-> "fin", m |-> 0, e |-> 0]

IsNaN(x) == x.k = "nan"
IsInf(x) == x.k = "inf"
IsFin(x) == x.k = "fin"

Abs(n) == IF n < 0 THEN -n ELSE n
Sgn(n) == IF n < 0 THEN -1 ELSE IF n = 0 THEN 0 ELSE 1

RECURSIVE BitLen(_)
\* Number of bits of a natural number.
BitLen(n) == IF n = 0 THEN 0 ELSE 1 + BitLen(n \div 2)

\* Round to nearest, ties to even: the float nearest to n * 2^e.
Round(n, e) ==
    IF n = 0 THEN Zero
    ELSE LET a == Abs(n)
             d == BitLen(a) - Prec
         IN IF d <= 0
            THEN [k |-> "fin", m |-> Sgn(n) * a * 2 ^ (-d), e |-> e + d]
            ELSE LET t == a \div 2 ^ d
                     r == a % 2 ^ d
                     h == 2 ^ (d - 1)
                     up == r > h \/ (r = h /\ t % 2 = 1)
                     s == IF up THEN t + 1 ELSE t
                 IN IF s = Hi
                    THEN [k |-> "fin", m |-> Sgn(n) * Lo, e |-> e + d + 1]
                    ELSE [k |-> "fin", m |-> Sgn(n) * s, e |-> e + d]

\* An integer as a float (the inputs are integer-valued samples).
Flt(n) == Round(n, 0)

\* Python's unary minus.
Neg(x) == [x EXCEPT !.m = -x.m]

\* Python's / numpy's +.
Add(x, y) ==
    IF IsNaN(x) \/ IsNaN(y) THEN NaN
    ELSE IF IsInf(x) THEN (IF IsInf(y) /\ y.m # x.m THEN NaN ELSE x)
    ELSE IF IsInf(y) THEN y
    ELSE IF x.m = 0 THEN y
    ELSE IF y.m = 0 THEN x
    ELSE IF x.e - y.e > 2 * Prec + 4 THEN x
    ELSE IF y.e - x.e > 2 * Prec + 4 THEN y
    ELSE LET e0 == IF x.e < y.e THEN x.e ELSE y.e
         IN Round(x.m * 2 ^ (x.e - e0) + y.m * 2 ^ (y.e - e0), e0)

\* numpy's -.
Sub(x, y) == Add(x, Neg(y))

\* numpy's *.
Mul(x, y) ==
    IF IsNaN(x) \/ IsNaN(y) THEN NaN
    ELSE IF IsInf(x) \/ IsInf(y)
         THEN (IF x.m = 0 \/ y.m = 0 THEN NaN
               ELSE IF Sgn(x.m) = Sgn(y.m) THEN PInf ELSE NInf)
    ELSE Round(x.m * y.m, x.e + y.e)

\* numpy's ** 2.
Square(x) == Mul(x, x)

\* numpy's /: x / 0 is an infinity, 0 / 0 is NaN, and nothing is raised.
Div(x, y) ==
    IF IsNaN(x) \/ IsNaN(y) THEN NaN
    ELSE IF IsInf(x)
         THEN (IF IsInf(y) THEN NaN
               ELSE IF Sgn(x.m) * (IF y.m < 0 THEN -1 ELSE 1) > 0 THEN PInf ELSE NInf)
    ELSE IF IsInf(y) THEN Zero
    ELSE IF y.m = 0
         THEN (IF x.m = 0 THEN NaN ELSE IF x.m > 0 THEN PInf ELSE NInf)
    ELSE LET n == Abs(x.m) * 2 ^ (Prec + 3)
             t == n \div Abs(y.m)
             j == IF n % Abs(y.m) = 0 THEN 0 ELSE 1
         IN Round(Sgn(x.m) * Sgn(y.m) * (2 * t + j), x.e - y.e - Prec - 4)

RECURSIVE ISqrt(_, _)
\* Integer square root of n, searched upwards from r.
ISqrt(n, r) == IF (r + 1) * (r + 1) > n THEN r ELSE ISqrt(n, r + 1)

\* Sqrt with a negative argument clamped to zero instead of giving NaN.
SqrtClamped(x) ==
    IF IsNaN(x) THEN NaN
    ELSE IF IsInf(x) THEN (IF x.m > 0 THEN PInf ELSE Zero)
    ELSE IF x.m <= 0 THEN Zero
    ELSE LET s == IF x.e % 2 = 0 THEN 2 * Prec + 2 ELSE 2 * Prec + 3
             n == x.m * 2 ^ s
             r == ISqrt(n, 2 ^ ((Prec - 1 + s) \div 2))
             j == IF r * r = n THEN 0 ELSE 1
         IN Round(2 * r + j, ((x.e - s) \div 2) - 1)

\* numpy's sqrt: NaN for a negative argument, nothing raised.
Sqrt(x) ==
    IF IsNaN(x) THEN NaN
    ELSE IF IsInf(x) THEN (IF x.m > 0 THEN PInf ELSE NaN)
    ELSE IF x.m < 0 THEN NaN
    ELSE IF x.m = 0 THEN Zero
    ELSE LET s == IF x.e % 2 = 0 THEN 2 * Prec + 2 ELSE 2 * Prec + 3
             n == x.m * 2 ^ s
             r == ISqrt(n, 2 ^ ((Prec - 1 + s) \div 2))
             j == IF r * r = n THEN 0 ELSE 1
         IN Round(2 * r + j, ((x.e - s) \div 2) - 1)

\* The order of the floats: a comparison with NaN is false.
Lt(x, y) ==
    /\ ~IsNaN(x) /\ ~IsNaN(y)
    /\ IF IsInf(x) THEN x.m < 0 /\ ~(IsInf(y) /\ y.m < 0)
       ELSE IF IsInf(y) THEN y.m > 0
       ELSE Sub(x, y).m < 0
Le(x, y) == ~IsNaN(x) /\ ~IsNaN(y) /\ ~Lt(y, x)

(***************************************************************************)
(* The transcendental functions of numpy, each the real function rounded   *)
(* to the format.  Their values are tabulated per binade (exponent e) and  *)
(* significand (m = Lo .. Hi - 1).                                         *)
(***************************************************************************)

Mk(p) == [k |-> "fin", m |-> p[1], e |-> p[2]]
One == Mk(<<Lo, 1 - Prec>>)
Two == Mk(<<Lo, 2 - Prec>>)
Half == Mk(<<Lo, -Prec>>)

\* np.pi, and pi / 2, pi / 4 and 3 pi / 4 as np.arctan2 returns them.
Pi == Mk(<<13, -2>>)
HalfPi == Mk(<<13, -3>>)
QuarterPi == Mk(<<13, -4>>)
ThreeQuarterPi == Mk(<<9, -2>>)

\* cos(m * 2^e) for e = -5 .. 0, that is for 1/4 <= x < 16.
CosTab ==
    << <<<<8, -3>>, <<15, -4>>, <<15, -4>>, <<15, -4>>, <<15, -4>>, <<15, -4>>, <<14, -4>>, <<14, -4>>>>,
       <<<<14, -4>>, <<14, -4>>, <<13, -4>>, <<12, -4>>, <<12, -4>>, <<11, -4>>, <<10, -4>>, <<9, -4>>>>,
       <<<<9, -4>>, <<14, -5>>, <<10, -5>>, <<12, -6>>, <<9, -7>>, <<-14, -8>>, <<-11, -6>>, <<-10, -5>>>>,
       <<<<-13, -5>>, <<-10, -4>>, <<-13, -4>>, <<-15, -4>>, <<-8, -3>>, <<-8, -3>>, <<-15, -4>>, <<-13, -4>>>>,
       <<<<-10, -4>>, <<-13, -6>>, <<9, -5>>, <<11, -4>>, <<15, -4>>, <<8, -3>>, <<12, -4>>, <<11, -5>>>>,
       <<<<-9, -6>>, <<-15, -4>>, <<-13, -4>>, <<9, -11>>, <<14, -4>>, <<15, -4>>, <<9, -6>>, <<-12, -4>>>> >>

\* sin(m * 2^e) for e = -5 .. 0.
SinTab ==
    << <<<<8, -5>>, <<9, -5>>, <<10, -5>>, <<11, -5>>, <<12, -5>>, <<13, -5>>, <<14, -5>>, <<14, -5>>>>,
       <<<<15, -5>>, <<9, -4>>, <<9, -4>>, <<10, -4>>, <<11, -4>>, <<12, -4>>, <<12, -4>>, <<13, -4>>>>,
       <<<<13, -4>>, <<14, -4>>, <<15, -4>>, <<8, -3>>, <<8, -3>>, <<8, -3>>, <<8, -3>>, <<15, -4>>>>,
       <<<<15, -4>>, <<12, -4>>, <<10, -4>>, <<12, -5>>, <<9, -6>>, <<-14, -7>>, <<-11, -5>>, <<-9, -4>>>>,
       <<<<-12, -4>>, <<-8, -3>>, <<-15, -4>>, <<-11, -4>>, <<-9, -5>>, <<14, -6>>, <<11, -4>>, <<15, -4>>>>,
       <<<<8, -3>>, <<13, -5>>, <<-9, -4>>, <<-8, -3>>, <<-9, -4>>, <<13, -5>>, <<8, -3>>, <<10, -4>>>> >>

\* exp(-(m * 2^e)) for e = -8 .. 1, that is for 1/32 <= x < 32.
ExpTab ==
    << <<<<8, -3>>, <<15, -4>>, <<15, -4>>, <<15, -4>>, <<15, -4>>, <<15, -4>>, <<15, -4>>, <<15, -4>>>>,
       <<<<15, -4>>, <<15, -4>>, <<15, -4>>, <<15, -4>>, <<15, -4>>, <<14, -4>>, <<14, -4>>, <<14, -4>>>>,
       <<<<14, -4>>, <<14, -4>>, <<14, -4>>, <<13, -4>>, <<13, -4>>, <<13, -4>>, <<13, -4>>, <<13, -4>>>>,
       <<<<12, -4>>, <<12, -4>>, <<12, -4>>, <<11, -4>>, <<11, -4>>, <<11, -4>>, <<10, -4>>, <<10, -4>>>>,
       <<<<10, -4>>, <<9, -4>>, <<9, -4>>, <<8, -4>>, <<15, -5>>, <<14, -5>>, <<13, -5>>, <<13, -5>>>>,
       <<<<12, -5>>, <<10, -5>>, <<9, -5>>, <<8, -5>>, <<14, -6>>, <<13, -6>>, <<11, -6>>, <<10, -6>>>>,
       <<<<9, -6>>, <<13, -7>>, <<11, -7>>, <<8, -7>>, <<13, -8>>, <<10, -8>>, <<15, -9>>, <<12, -9>>>>,
       <<<<9, -9>>, <<11, -10>>, <<14, -11>>, <<8, -11>>, <<10, -12>>, <<12, -13>>, <<15, -14>>, <<9, -14>>>>,
       <<<<11, -15>>, <<8, -16>>, <<12, -18>>, <<9, -19>>, <<13, -21>>, <<9, -22>>, <<14, -24>>, <<10, -25>>>>,
       <<<<15, -27>>, <<8, -29>>, <<9, -32>>, <<10, -35>>, <<10, -38>>, <<11, -41>>, <<12, -44>>, <<13, -47>>>> >>

\* np.cos: 1 below 1/4, where 1 - cos x is less than half a unit in the last
\* place of 1.
Cos(x) ==
    IF ~IsFin(x) THEN NaN
    ELSE IF x.m = 0 \/ x.e < -5 THEN One
    ELSE Mk(CosTab[x.e + 6][Abs(x.m) - Lo + 1])

\* np.sin: x itself below 1/4.
Sin(x) ==
    IF ~IsFin(x) THEN NaN
    ELSE IF x.m = 0 \/ x.e < -5 THEN x
    ELSE LET v == Mk(SinTab[x.e + 6][Abs(x.m) - Lo + 1])
         IN IF x.m < 0 THEN Neg(v) ELSE v

\* np.exp, for the arguments the code passes (never a positive finite one):
\* 1 above -1/32, and 0 (underflow) from -32 down, the exponent range being
\* scaled down with the significand (float64 underflows from -746 down).
Exp(x) ==
    IF IsNaN(x) THEN NaN
    ELSE IF IsInf(x) THEN (IF x.m > 0 THEN PInf ELSE Zero)
    ELSE IF x.m = 0 THEN One
    ELSE CASE x.m < 0 /\ x.e < -8 -> One
           [] x.m < 0 /\ x.e >= -8 /\ x.e <= 1 -> Mk(ExpTab[x.e + 9][-x.m - Lo + 1])
           [] x.m < 0 /\ x.e > 1 -> Zero

\* The rounding boundaries of the angles between 1/16 and pi: the midpoints of
\* consecutive floats, as cos and sin scaled by 2^14.
AngleCos == <<16348, 16339, 16329, 16318, 16306, 16293, 16279, 16264, 16240, 16204, 16164, 16120, 16072, 16021, 15965, 15906, 15809, 15667, 15510, 15337, 15150, 14947, 14731, 14499, 14126, 13580, 12981, 12331, 11633, 10890, 10104, 9279, 7974, 6127, 4185, 2177, 136, -1908, -3922, -5874, -8622, -11801, -14246, -15805, -16382>>
AngleSin == <<1087, 1215, 1342, 1470, 1597, 1725, 1852, 1979, 2170, 2423, 2676, 2928, 3180, 3430, 3680, 3929, 4301, 4793, 5280, 5762, 6238, 6709, 7173, 7629, 8300, 9166, 9997, 10788, 11537, 12241, 12897, 13503, 14313, 15195, 15840, 16239, 16383, 16273, 15908, 15295, 13932, 11365, 8092, 4316, 272>>

\* The n-th float above 1/16 (n = 0 for 1/16 itself).
AngleVal(n) == Mk(<<Lo + (n % Lo), (n \div Lo) - 3 - Prec>>)

\* arctan2(y, x) for finite y > 0 and finite x: the float nearest to the angle of
\* the direction (x, y), found by counting the rounding boundaries the direction
\* lies beyond.  A small angle rounds as y / x does, a direction within 2^-7 of
\* an axis to the axis.
ArctanPos(y, x) ==
    IF x.m = 0 \/ y.e - x.e >= 8 THEN HalfPi
    ELSE IF x.m > 0 /\ y.e - x.e <= -4 THEN Div(y, x)
    ELSE IF y.e - x.e <= -8 THEN Pi
    ELSE LET e0 == IF x.e < y.e THEN x.e ELSE y.e
             yi == y.m * 2 ^ (y.e - e0)
             xi == x.m * 2 ^ (x.e - e0)
             n == Cardinality({j \in DOMAIN AngleCos :
                                  AngleCos[j] * yi - AngleSin[j] * xi > 0})
         IN AngleVal(n)

\* np.arctan2, in (-pi, pi].
Arctan2(y, x) ==
    IF IsNaN(y) \/ IsNaN(x) THEN NaN
    ELSE IF IsInf(y)
         THEN LET v == IF IsFin(x) THEN HalfPi
                       ELSE IF x.m > 0 THEN QuarterPi ELSE ThreeQuarterPi
              IN IF y.m < 0 THEN Neg(v) ELSE v
    ELSE IF IsInf(x)
         THEN (IF x.m > 0 THEN Zero ELSE IF y.m < 0 THEN Neg(Pi) ELSE Pi)
    ELSE IF y.m = 0 THEN (IF x.m < 0 THEN Pi ELSE Zero)
    ELSE IF y.m > 0 THEN ArctanPos(y, x)
    ELSE Neg(ArctanPos(Neg(y), x))

\* C's fmod on finite x and y # 0: x - trunc(x / y) * y, which is exact.
Fmod(x, y) ==
    IF x.m = 0 THEN Zero
    ELSE IF x.e < y.e - Prec THEN x
    ELSE LET e0 == IF x.e < y.e THEN x.e ELSE y.e
             xi == Abs(x.m) * 2 ^ (x.e - e0)
             yi == Abs(y.m) * 2 ^ (y.e - e0)
         IN Round(Sgn(x.m) * (xi % yi), e0)

\* np.mod (npy_divmod): the remainder with the sign of the divisor.  fmod's
\* remainder has the sign of x; when the signs differ the divisor is added, and
\* that addition rounds.
Mod(x, y) ==
    IF IsNaN(x) \/ IsNaN(y) \/ IsInf(x) THEN NaN
    ELSE IF IsInf(y) THEN (IF Sgn(x.m) * y.m >= 0 THEN x ELSE y)
    ELSE IF y.m = 0 THEN NaN
    ELSE LET r == Fmod(x, y)
         IN IF r.m # 0 /\ (y.m < 0) # (r.m < 0) THEN Add(r, y) ELSE r


(***************************************************************************)
(* numpy arrays.  An array is a sequence of floats; every numpy operation  *)
(* the module uses is element-wise and returns a new array.                *)
(***************************************************************************)

\* A Python scalar broadcast to the shape of the array a.
Like(c, a) == [i \in DOMAIN a |-> c]

\* np_sqrt with a domain check on the whole array: one negative element makes
\* every element NaN.
np_sqrt_checked(a) ==
    IF \E k \in DOMAIN a : IsFin(a[k]) /\ a[k].m < 0
    THEN [i \in DOMAIN a |-> NaN]
    ELSE [i \in DOMAIN a |-> Sqrt(a[i])]

np_sqrt(a) == [i \in DOMAIN a |-> Sqrt(a[i])]
np_cos(a) == [i \in DOMAIN a |-> Cos(a[i])]
np_sin(a) == [i \in DOMAIN a |-> Sin(a[i])]
np_exp(a) == [i \in DOMAIN a |-> Exp(a[i])]
np_arctan2(a, b) == [i \in DOMAIN a |-> Arctan2(a[i], b[i])]
np_mod(a, b) == [i \in DOMAIN a |-> Mod(a[i], b[i])]
add(a, b) == [i \in DOMAIN a |-> Add(a[i], b[i])]
sub(a, b) == [i \in DOMAIN a |-> Sub(a[i], b[i])]
mul(a, b) == [i \in DOMAIN a |-> Mul(a[i], b[i])]
div(a, b) == [i \in DOMAIN a |-> Div(a[i], b[i])]
neg(a) == [i \in DOMAIN a |-> Neg(a[i])]
pow2(a) == [i \in DOMAIN a |-> Square(a[i])]

(***************************************************************************)
(* The functions of plaszczynski.py.                                       *)
(***************************************************************************)

\* np.arctan2(u, q)
_phi(q, u) == np_arctan2(u, q)

\* np.mod(0.5 * np.arctan2(2. * rsqsu, sq ** 2 - su ** 2), np.pi)
_theta(sq, su, rsqsu) ==
    np_mod(mul(Like(Half, sq),
               np_arctan2(mul(Like(Two, rsqsu), rsqsu), sub(pow2(sq), pow2(su)))),
           Like(Pi, sq))

\* np.sqrt(sup ** 2 * np.cos(phi - theta) ** 2 + sqp ** 2 * np.sin(phi - theta) ** 2)
_bias(sqp, sup, phi, theta) ==
    np_sqrt(add(mul(pow2(sup), pow2(np_cos(sub(phi, theta)))),
                mul(pow2(sqp), pow2(np_sin(sub(phi, theta))))))

\* The radicand of _sigma_q_prime:
\* sq ** 2 * np.cos(theta) ** 2 + su ** 2 * np.sin(theta) ** 2 + rsqsu * np.sin(2. * theta)
RadicandQ(sq, su, rsqsu, theta) ==
    add(add(mul(pow2(sq), pow2(np_cos(theta))), mul(pow2(su), pow2(np_sin(theta)))),
        mul(rsqsu, np_sin(mul(Like(Two, theta), theta))))

\* The radicand of _sigma_u_prime:
\* sq ** 2 * np.sin(theta) ** 2 + su ** 2 * np.cos(theta) ** 2 - rsqsu * np.sin(2. * theta)
RadicandU(sq, su, rsqsu, theta) ==
    sub(add(mul(pow2(sq), pow2(np_sin(theta))), mul(pow2(su), pow2(np_cos(theta)))),
        mul(rsqsu, np_sin(mul(Like(Two, theta), theta))))

_sigma_q_prime(sq, su, rsqsu, theta) == np_sqrt(RadicandQ(sq, su, rsqsu, theta))

_sigma_u_prime(sq, su, rsqsu, theta) == np_sqrt(RadicandU(sq, su, rsqsu, theta))

\* np.sqrt(q ** 2 + u ** 2)
_P(q, u) == np_sqrt(add(pow2(q), pow2(u)))

\* The return expression of PMAS:
\* P - bias ** 2 * (1. - np.exp(- P ** 2 / bias ** 2)) / 2. / P
Estimate(P, bias) ==
    sub(P,
        div(div(mul(pow2(bias),
                    sub(Like(One, P), np_exp(div(neg(pow2(P)), pow2(bias))))),
                Like(Two, P)),
            P))

\* PMAS as a function of its five arguments.
PMAS(q, u, sq, su, rsqsu) ==
    LET P == _P(q, u)
        phi == _phi(q, u)
        theta == _theta(sq, su, rsqsu)
        sqp == _sigma_q_prime(sq, su, rsqsu, theta)
        sup == _sigma_u_prime(sq, su, rsqsu, theta)
        bias == _bias(sqp, sup, phi, theta)
    IN Estimate(P, bias)

(***************************************************************************)
(* The state: a caller and one activation of PMAS.                         *)
(***************************************************************************)

VARIABLES
    args,   \* the five arrays q, u, sq, su, rsqsu the caller passes (by reference)
    loc,    \* PMAS's locals P, phi, theta, sqp, sup, bias (<<>> while unbound)
    pc,     \* the statement PMAS is at, or "done" once it has returned
    ret,    \* the array PMAS returned (<<>> before it returns)
    log     \* the caller's record of its calls: what it passed, what it got

vars == <<args, loc, pc, ret, log>>

\* Bounds of the inputs: |q|, |u| <= MaxQ, 0 <= sq, su <= MaxSigma,
\* |rsqsu| <= MaxCov, arrays of up to MaxLen samples, up to MaxCalls calls.
MaxQ == 2
MaxSigma == 4
MaxCov == 4
MaxLen == 2
MaxCalls == 2

Unbound == [P |-> <<>>, phi |-> <<>>, theta |-> <<>>, sqp |-> <<>>, sup |-> <<>>,
            bias |-> <<>>]

\* One sample: integer-valued q, u, sq, su, rsqsu.
Sample(q, u, sq, su, rsqsu) ==
    [q |-> Flt(q), u |-> Flt(u), sq |-> Flt(sq), su |-> Flt(su), rsqsu |-> Flt(rsqsu)]

\* The five arrays holding the samples of the sequence s.
Arrays(s) ==
    [q |-> [i \in DOMAIN s |-> s[i].q], u |-> [i \in DOMAIN s |-> s[i].u],
     sq |-> [i \in DOMAIN s |-> s[i].sq], su |-> [i \in DOMAIN s |-> s[i].su],
     rsqsu |-> [i \in DOMAIN s |-> s[i].rsqsu]]

\* Every sample within the bounds, the covariance term positive-semidefinite
\* or not.
AllSamples ==
    {Sample(q, u, sq, su, r) : q \in -MaxQ..MaxQ, u \in -MaxQ..MaxQ,
                               sq \in 0..MaxSigma, su \in 0..MaxSigma,
                               r \in -MaxCov..MaxCov}

\* The samples of the batched calls: an ordinary one, Q = U = 0, zero noise, a
\* covariance that is not positive-semidefinite, and a fully correlated one.
BatchSamples ==
    {Sample(2, 1, 2, 1, 1), Sample(0, 0, 1, 1, 0), Sample(1, 2, 0, 0, 0),
     Sample(1, 1, 1, 1, 2), Sample(1, 0, 2, 1, 2)}

Batches == UNION {[1..n -> BatchSamples] : n \in 1..MaxLen}

\* The caller calls PMAS(q, u, sq, su, rsqsu) with the arrays a.
Enter(a) ==
    /\ args' = a
    /\ loc' = Unbound
    /\ pc' = "P"
    /\ ret' = <<>>
    /\ log' = Append(log, [passed |-> a, ret |-> <<>>])

\* A first call on one sample (a scalar call, or an array of one element).
Init ==
    /\ args \in {Arrays(<<s>>) : s \in AllSamples}
    /\ loc = Unbound
    /\ pc = "P"
    /\ ret = <<>>
    /\ log = <<[passed |-> args, ret |-> <<>>]>>

\* A first call on a batch.
InitBatch ==
    /\ args \in {Arrays(s) : s \in Batches}
    /\ loc = Unbound
    /\ pc = "P"
    /\ ret = <<>>
    /\ log = <<[passed |-> args, ret |-> <<>>]>>

\* ComputeP with the squares taken in place (q **= 2; u **= 2) in the caller's
\* arrays.
ComputePInPlace ==
    /\ pc = "P"
    /\ args' = [args EXCEPT !.q = pow2(args.q), !.u = pow2(args.u)]
    /\ loc' = [loc EXCEPT !.P = np_sqrt(add(args'.q, args'.u))]
    /\ pc' = "phi"
    /\ UNCHANGED <<ret, log>>

\* P = _P(q, u)
ComputeP ==
    /\ pc = "P"
    /\ loc' = [loc EXCEPT !.P = _P(args.q, args.u)]
    /\ pc' = "phi"
    /\ UNCHANGED <<args, ret, log>>

\* phi = _phi(q, u)
ComputePhi ==
    /\ pc = "phi"
    /\ loc' = [loc EXCEPT !.phi = _phi(args.q, args.u)]
    /\ pc' = "theta"
    /\ UNCHANGED <<args, ret, log>>

\* theta = _theta(sq, su, rsqsu)
ComputeTheta ==
    /\ pc = "theta"
    /\ loc' = [loc EXCEPT !.theta = _theta(args.sq, args.su, args.rsqsu)]
    /\ pc' = "sqp"
    /\ UNCHANGED <<args, ret, log>>

\* sqp = _sigma_q_prime(sq, su, rsqsu, theta)
ComputeSqp ==
    /\ pc = "sqp"
    /\ loc' = [loc EXCEPT !.sqp = _sigma_q_prime(args.sq, args.su, args.rsqsu, loc.theta)]
    /\ pc' = "sup"
    /\ UNCHANGED <<args, ret, log>>

\* sup = _sigma_u_prime(sq, su, rsqsu, theta)
ComputeSup ==
    /\ pc = "sup"
    /\ loc' = [loc EXCEPT !.sup = _sigma_u_prime(args.sq, args.su, args.rsqsu, loc.theta)]
    /\ pc' = "bias"
    /\ UNCHANGED <<args, ret, log>>

\* bias = _bias(sqp, sup, phi, theta)
ComputeBias ==
    /\ pc = "bias"
    /\ loc' = [loc EXCEPT !.bias = _bias(loc.sqp, loc.sup, loc.phi, loc.theta)]
    /\ pc' = "return"
    /\ UNCHANGED <<args, ret, log>>

\* return P - bias ** 2 * (1. - np.exp(- P ** 2 / bias ** 2)) / 2. / P
\* The locals die with the activation; the caller keeps the result.
Return ==
    /\ pc = "return"
    /\ ret' = Estimate(loc.P, loc.bias)
    /\ log' = [log EXCEPT ![Len(log)].ret = ret']
    /\ loc' = Unbound
    /\ pc' = "done"
    /\ UNCHANGED args

\* The arrays a with their samples in reverse order.
Reversed(a) == [f \in DOMAIN a |-> [i \in DOMAIN a[f] |-> a[f][Len(a[f]) + 1 - i]]]

\* The caller calls PMAS again: with the arrays it holds, or with their samples
\* reversed.
Again ==
    /\ pc = "done"
    /\ Len(log) < MaxCalls
    /\ \E a \in {args, Reversed(args)} : Enter(a)

Next ==
    \/ ComputeP
    \/ ComputePhi
    \/ ComputeTheta
    \/ ComputeSqp
    \/ ComputeSup
    \/ ComputeBias
    \/ Return

NextBatch == Next \/ Again

\* One call of PMAS on one sample, over every sample within the bounds.
Spec == Init /\ [][Next]_vars

\* Repeated calls of PMAS on batches of samples.
SpecBatch == InitBatch /\ [][NextBatch]_vars

(***************************************************************************)
(* The claims.  The intermediate values of a call are named here as        *)
(* functions of the arguments, for the states in which PMAS's locals are   *)
(* gone.                                                                   *)
(***************************************************************************)

Idx == DOMAIN args.q
P0 == _P(args.q, args.u)
Phi0 == _phi(args.q, args.u)
Theta0 == _theta(args.sq, args.su, args.rsqsu)
RadQ0 == RadicandQ(args.sq, args.su, args.rsqsu, Theta0)
RadU0 == RadicandU(args.sq, args.su, args.rsqsu, Theta0)
Sqp0 == _sigma_q_prime(args.sq, args.su, args.rsqsu, Theta0)
Sup0 == _sigma_u_prime(args.sq, args.su, args.rsqsu, Theta0)
Bias0 == _bias(Sqp0, Sup0, Phi0, Theta0)

\* The integer an integer-valued float holds.
IntVal(x) == (x.m * 2 ^ (x.e + 2 * Prec)) \div 2 ^ (2 * Prec)

\* Sample i has a positive-semidefinite noise covariance: sq, su >= 0 and
\* rsqsu^2 <= sq^2 * su^2, in exact arithmetic.
PSD(i) ==
    /\ IntVal(args.sq[i]) >= 0
    /\ IntVal(args.su[i]) >= 0
    /\ IntVal(args.rsqsu[i]) * IntVal(args.rsqsu[i])
          <= IntVal(args.sq[i]) * IntVal(args.sq[i]) * IntVal(args.su[i]) * IntVal(args.su[i])

IsNegative(x) == Lt(x, Zero)

\* C1: with q = u = 0 and a bias b > 0, PMAS returns 0 (not NaN, not an
\* infinity).
C1_ZeroSignalGivesZero ==
    pc = "done" =>
        \A i \in Idx :
            (args.q[i] = Zero /\ args.u[i] = Zero /\ Lt(Zero, Bias0[i])) => ret[i] = Zero

\* C2: with sq = su = rsqsu = 0, PMAS returns exactly P = sqrt(q^2 + u^2), for
\* every q and u.
C2_ZeroNoiseGivesP ==
    pc = "done" =>
        \A i \in Idx :
            (args.sq[i] = Zero /\ args.su[i] = Zero /\ args.rsqsu[i] = Zero)
                => ret[i] = P0[i]

\* C4: the value _theta returns satisfies 0 <= theta < pi.
C4_ThetaInRange ==
    pc = "sqp" => \A i \in Idx : Le(Zero, loc.theta[i]) /\ Lt(loc.theta[i], Pi)

\* C5: for a positive-semidefinite covariance the radicands of _sigma_q_prime
\* and _sigma_u_prime are >= 0, and neither function returns NaN.
C5_RadicandsNonNegative ==
    pc = "bias" =>
        \A i \in Idx :
            PSD(i) => /\ Le(Zero, RadQ0[i]) /\ Le(Zero, RadU0[i])
                      /\ ~IsNaN(loc.sqp[i]) /\ ~IsNaN(loc.sup[i])

\* C6: for a valid input, PMAS(u, q, su, sq, rsqsu) = PMAS(q, u, sq, su, rsqsu).
C6_RelabelingSymmetry ==
    pc = "done" =>
        \A i \in Idx :
            PSD(i) => ret[i] = PMAS(args.u, args.q, args.su, args.sq, args.rsqsu)[i]

\* C9: for a positive-semidefinite covariance, sigma_u_prime <= sigma_q_prime and
\* sigma_u_prime <= b <= sigma_q_prime, whatever the polarization angle.
C9_BiasBetweenAxes ==
    pc = "return" =>
        \A i \in Idx :
            PSD(i) => /\ Le(loc.sup[i], loc.sqp[i])
                      /\ Le(loc.sup[i], loc.bias[i])
                      /\ Le(loc.bias[i], loc.sqp[i])

\* C10: for P > 0 and b > 0, P / 2 <= P_MAS <= P.
C10_EstimateBetweenHalfPAndP ==
    pc = "done" =>
        \A i \in Idx :
            (Lt(Zero, P0[i]) /\ Lt(Zero, Bias0[i]))
                => Le(Div(P0[i], Two), ret[i]) /\ Le(ret[i], P0[i])

\* C3: a call on arrays of N samples returns an array of N values, and the value
\* at each index is the one a call on that sample alone returns: no sample, and
\* no degenerate sample in particular, changes the value at another index.
C3_BatchIsolation ==
    pc = "done" =>
        /\ Len(ret) = Len(args.q)
        /\ \A i \in Idx :
              ret[i] = PMAS(<<args.q[i]>>, <<args.u[i]>>, <<args.sq[i]>>, <<args.su[i]>>,
                            <<args.rsqsu[i]>>)[1]

\* A batch has returned with NaN at one index (a degenerate sample) and a finite
\* value at another.
C3_Witness ==
    /\ pc = "done"
    /\ \E k \in Idx : IsNaN(ret[k]) /\ \E j \in Idx \ {k} : IsFin(ret[j])

\* C7: a negative radicand of _sigma_q_prime or _sigma_u_prime gives NaN from that
\* function (it is not clamped to 0), and the NaN reaches the bias and the value
\* PMAS returns for that sample.
C7_NegativeRadicandGivesNaN ==
    \A i \in Idx :
        /\ (pc \in {"sup", "bias", "return"} /\ IsNegative(RadQ0[i])) => IsNaN(loc.sqp[i])
        /\ (pc \in {"bias", "return"} /\ IsNegative(RadU0[i])) => IsNaN(loc.sup[i])
        /\ (pc = "return" /\ (IsNegative(RadQ0[i]) \/ IsNegative(RadU0[i])))
              => IsNaN(loc.bias[i])
        /\ (pc = "done" /\ (IsNegative(RadQ0[i]) \/ IsNegative(RadU0[i])))
              => IsNaN(ret[i])

\* PMAS has returned NaN for a sample whose covariance is not positive-semidefinite
\* and whose radicand is negative.
C7_Witness ==
    /\ pc = "done"
    /\ \E i \in Idx : ~PSD(i) /\ IsNegative(RadU0[i]) /\ IsNaN(ret[i])

\* C8: a call leaves the five arrays it was passed as they were, none of its
\* locals outlives it, and calls that were passed equal inputs returned equal
\* results, whatever calls came between.
C8_Stateless ==
    /\ args = log[Len(log)].passed
    /\ pc = "done" => loc = Unbound
    /\ \A i, j \in DOMAIN log :
          (log[i].passed = log[j].passed /\ log[i].ret # <<>> /\ log[j].ret # <<>>)
              => log[i].ret = log[j].ret

\* A second call with the inputs of the first has returned.
C8_Witness ==
    /\ pc = "done"
    /\ \E i, j \in DOMAIN log : i < j /\ log[i].passed = log[j].passed /\ log[j].ret # <<>>
====
